---- MODULE Spec2Model ----
(***************************************************************************)
(* Model of src/minesweeper.py: the Sentence constraint, the MinesweeperAI *)
(* knowledge base (add_knowledge, update_safes, the subset-rule saturation *)
(* loop, make_safe_move, make_random_move) and the part of the Minesweeper *)
(* board that produces the clues fed to add_knowledge.                     *)
(***************************************************************************)
EXTENDS Integers, Sequences, FiniteSets, TLC

(* ---------------- program constants ---------------- *)

\* adjacent_cell drops a neighbour when i>7 or j>7 (a literal, not height/width)
ClipMax == 7

\* for i in range(0,3): the number of saturation rounds
Rounds == 3

(* ---------------- bounds of the model ---------------- *)

\* at most this many mines are placed on the board
MaxMines == 2

\* at most this many add_knowledge calls in one game
MaxCalls == 6

\* ... and at most this many on a board of more than SmallBoard cells (such a
\* board has more states per call)
MaxCallsLarge == 4

SmallBoard == 4

\* at most this many add_knowledge calls when the inputs are arbitrary
MaxCallsAny == 2

\* the driving loop reveals cells of the last Window rows and columns only
\* (every cell of a board that is at most Window high and wide)
Window == 4

\* the (height, width) pairs a MinesweeperAI is built with: a square board,
\* a non-square board and a board one cell wider than the literal of adjacent_cell
Dims == {<<2, 2>>, <<2, 3>>, <<1, 9>>}

\* the counts add_knowledge is called with when the inputs are arbitrary
AnyCounts == -1 .. 2

\* the cells and counts the Sentence operations are tried on
SentCells == {<<0, 0>>, <<0, 1>>, <<1, 0>>}
SentCounts == -1 .. 4

None == <<"None">>

VARIABLES
    height, width,      \* MinesweeperAI.height, MinesweeperAI.width
    board,              \* Minesweeper.mines: where the mines really are
    moves_made,         \* MinesweeperAI.moves_made
    safes,              \* MinesweeperAI.safes
    mines,              \* MinesweeperAI.mines
    knowledge,          \* MinesweeperAI.knowledge: list of Sentences
    pc,                 \* "idle", or "sat" at the head of the saturation loop
    round,              \* saturation rounds completed by the current call
    ncalls,             \* add_knowledge calls made so far
    lastOp,             \* the operation that acted last
    arg,                \* (cell, count) of the current / last add_knowledge
    repeat,             \* the current / last add_knowledge repeats the call before it
    ret,                \* value returned by the last make_*_move
    direct,             \* knowledge as the direct-consequence pass of the call left it
    derived,            \* the Sentences the last saturation round appended
    sent,               \* a free-standing Sentence
    sold,               \* that Sentence before the last Sentence operation
    sarg,               \* the cell argument of the last Sentence operation
    sret                \* value returned by the last Sentence query

vars == <<height, width, board, moves_made, safes, mines, knowledge, pc, round,
          ncalls, lastOp, arg, repeat, ret, direct, derived, sent, sold, sarg, sret>>

aiVars == <<height, width, board, moves_made, safes, mines, knowledge, pc, round,
            ncalls, lastOp, arg, repeat, ret, direct, derived>>

sentVars == <<sent, sold, sarg, sret>>

(* ---------------- Minesweeper (the board) ---------------- *)

InBoard(c) == 0 <= c[1] /\ c[1] < height /\ 0 <= c[2] /\ c[2] < width

BoardCells == {c \in (0 .. height - 1) \X (0 .. width - 1) : TRUE}

is_mine(c) == c \in board

Around(cell) ==
    {<<cell[1] + n1, cell[2] + n2>> : n1 \in -1 .. 1, n2 \in -1 .. 1}

nearby_mines(cell) ==
    Cardinality({c \in Around(cell) : c # cell /\ InBoard(c) /\ is_mine(c)})

(* ---------------- Sentence ---------------- *)

Sentence(cells, count) == [cells |-> cells, count |-> count]

\* known_mines with the test loosened to "at least as many cells as count"
known_mines_loose(s) == IF Cardinality(s.cells) >= s.count THEN s.cells ELSE {}

known_mines(s) == IF Cardinality(s.cells) = s.count THEN s.cells ELSE {}

known_safes(s) == IF s.count = 0 THEN s.cells ELSE {}

Sentence_mark_mine(s, cell) ==
    IF cell \in s.cells
    THEN Sentence(s.cells \ {cell}, s.count - 1)
    ELSE s

Sentence_mark_safe(s, cell) ==
    IF s.count # 0 /\ cell \in s.cells
    THEN Sentence(s.cells \ {cell}, s.count)
    ELSE s

(* ---------------- MinesweeperAI ---------------- *)

\* The knowledge base as a value: st.safes, st.mines, st.knowledge
KB(sf, mn, kn) == [safes |-> sf, mines |-> mn, knowledge |-> kn]

mark_mine(st, cell) ==
    KB(st.safes,
       st.mines \cup {cell},
       Append([i \in DOMAIN st.knowledge |-> Sentence_mark_mine(st.knowledge[i], cell)],
              Sentence({cell}, 1)))

mark_safe(st, cell) ==
    KB(st.safes \cup {cell},
       st.mines,
       [i \in DOMAIN st.knowledge |-> Sentence_mark_safe(st.knowledge[i], cell)])

adjacent_cell(cell) ==
    {c \in Around(cell) : ~(c[1] < 0 \/ c[2] < 0 \/ c[1] > ClipMax \/ c[2] > ClipMax)}

valid_adj(r, moves) == r \ moves

\* The cells make_safe_move may return
SafeMoves(sf, mn, moves) == {c \in sf : c \notin mn /\ c \notin moves}

\* Iteration order of a Python set: not fixed by the language; two orders are tried
Orders == {"asc", "desc"}

Rank(c) == c[1] * 16 + c[2]

FirstOf(S, ord) ==
    CHOOSE c \in S : \A d \in S :
        IF ord = "asc" THEN Rank(c) <= Rank(d) ELSE Rank(c) >= Rank(d)

\* make_safe_move without the test on moves_made
make_safe_move_anymove(sf, mn, moves, ord) ==
    LET S == {c \in sf : c \notin mn}
    IN  IF S = {} THEN None ELSE FirstOf(S, ord)

\* for i,j in self.safes: the first cell found that is no mine and no move made
make_safe_move(sf, mn, moves, ord) ==
    LET S == SafeMoves(sf, mn, moves)
    IN  IF S = {} THEN None ELSE FirstOf(S, ord)

\* The member of a one-element set. The loops below are written
\* The({Rest(v) : v \in {e}}) so that the intermediate knowledge base e is
\* computed once and handed on as a value.
The(S) == CHOOSE x \in S : TRUE

\* for c in ks: if c not in self.safes: self.mark_safe(c)
RECURSIVE MarkSafes(_, _, _)
MarkSafes(st, todo, ord) ==
    IF todo = {} THEN st
    ELSE The({MarkSafes(st1, todo \ {c}, ord) :
                <<c, st1>> \in {<<c, IF c \notin st.safes THEN mark_safe(st, c) ELSE st>> :
                                   c \in {FirstOf(todo, ord)}}})

\* for c in km: if c not in self.mines: self.mark_mine(c)
RECURSIVE MarkMines(_, _, _)
MarkMines(st, todo, ord) ==
    IF todo = {} THEN st
    ELSE The({MarkMines(st1, todo \ {c}, ord) :
                <<c, st1>> \in {<<c, IF c \notin st.mines THEN mark_mine(st, c) ELSE st>> :
                                   c \in {FirstOf(todo, ord)}}})

\* the loop of update_safes over k = self.knowledge.copy(), from position i to n
RECURSIVE UpdateFrom(_, _, _, _)
UpdateFrom(st, i, n, ord) ==
    IF i > n THEN st
    ELSE The({UpdateFrom(st2, i + 1, n, ord) :
                st2 \in {MarkMines(st1, known_mines(st1.knowledge[i]), ord) :
                            st1 \in {MarkSafes(st, known_safes(st.knowledge[i]), ord)}}})

update_safes(st, ord) == The({UpdateFrom(st0, 1, Len(st0.knowledge), ord) : st0 \in {st}})

diff(i, j) == {item \in j : item \notin i}

\* the condition of line 280 on the pair (s1, s2)
SubsetPair(s1, s2) ==
    /\ Cardinality(s1.cells) > 0
    /\ Cardinality(s2.cells) > 0
    /\ s1 # s2
    /\ s1.cells \subseteq s2.cells
    /\ Cardinality(s1.cells) # Cardinality(s2.cells)

\* Derived with the counts subtracted the wrong way round
Derived_swapped(k) ==
    LET n == Len(k)
        P == [x \in 1 .. n * n |-> <<((x - 1) \div n) + 1, ((x - 1) % n) + 1>>]
        Q == SelectSeq(P, LAMBDA p : SubsetPair(k[p[1]], k[p[2]]))
    IN  [x \in 1 .. Len(Q) |->
            Sentence(diff(k[Q[x][1]].cells, k[Q[x][2]].cells),
                     k[Q[x][1]].count - k[Q[x][2]].count)]

\* the Sentences the double loop over k appends, in the order it appends them
Derived(k) ==
    LET n == Len(k)
        P == [x \in 1 .. n * n |-> <<((x - 1) \div n) + 1, ((x - 1) % n) + 1>>]
        Q == SelectSeq(P, LAMBDA p : SubsetPair(k[p[1]], k[p[2]]))
    IN  [x \in 1 .. Len(Q) |->
            Sentence(diff(k[Q[x][1]].cells, k[Q[x][2]].cells),
                     k[Q[x][2]].count - k[Q[x][1]].count)]

InSeq(s, res) == \E x \in DOMAIN res : res[x] = s

\* res = []; for i in self.knowledge: skip if i in res or len(i.cells)==0
RECURSIVE PruneFrom(_, _, _)
PruneFrom(k, x, res) ==
    IF x > Len(k) THEN res
    ELSE The({PruneFrom(k, x + 1, res1) :
                res1 \in {IF InSeq(k[x], res) \/ Cardinality(k[x].cells) = 0
                          THEN res ELSE Append(res, k[x])}})

Prune(k) == The({PruneFrom(k0, 1, <<>>) : k0 \in {k}})

\* one iteration of `for i in range(0,3)`
SaturationStep(st, ord) ==
    The({update_safes(KB(st.safes, st.mines, Prune(st.knowledge \o d)), ord) :
           d \in {Derived(st.knowledge)}})

\* the Sentence add_knowledge builds for (cell, count), given moves_made
NewSentence(cell, count, moves) ==
    Sentence(valid_adj(adjacent_cell(cell), moves), count)

\* lines 255-271 of add_knowledge
DirectPass(st, moves, cell, count, ord) ==
    LET st1 == mark_safe(st, cell)
        new_s == NewSentence(cell, count, moves)
        k == IF InSeq(new_s, st1.knowledge)
             THEN st1.knowledge ELSE Append(st1.knowledge, new_s)
    IN  update_safes(KB(st1.safes, st1.mines, k), ord)

\* make_random_move: first scan skips cells of positive-count Sentences
Scan == (0 .. width - 1) \X (0 .. height - 1)

FirstScan(S) ==
    IF S = {} THEN None
    ELSE CHOOSE c \in S : \A d \in S :
            c[1] < d[1] \/ (c[1] = d[1] /\ c[2] <= d[2])

Implicated(k) == UNION {k[x].cells : x \in {y \in DOMAIN k : k[y].count > 0}}

make_random_move(k, mn, moves) ==
    LET lst == Implicated(k)
        A == {c \in Scan : c \notin mn /\ c \notin moves /\ c \notin lst}
        B == {c \in Scan : c \notin mn /\ c \notin moves}
    IN  IF A # {} THEN FirstScan(A) ELSE FirstScan(B)

(* ---------------- the state machine ---------------- *)

Cur == KB(safes, mines, knowledge)

Budget == IF height * width <= SmallBoard THEN MaxCalls ELSE MaxCallsLarge

Revealable == {c \in BoardCells : c[1] >= height - Window /\ c[2] >= width - Window}

NoSent == Sentence({}, 0)

AIInit ==
    /\ \E d \in Dims : height = d[1] /\ width = d[2]
    /\ board \in {b \in SUBSET BoardCells : Cardinality(b) <= MaxMines}
    /\ moves_made = {}
    /\ safes = {}
    /\ mines = {}
    /\ knowledge = <<>>
    /\ pc = "idle"
    /\ round = 0
    /\ ncalls = 0
    /\ lastOp = "init"
    /\ arg = None
    /\ repeat = FALSE
    /\ ret = None
    /\ direct = <<>>
    /\ derived = <<>>

SentIdle == sent = NoSent /\ sold = NoSent /\ sarg = None /\ sret = None

Init == AIInit /\ SentIdle

\* add_knowledge(cell, count) up to the test `if self.make_safe_move()==None`
add_knowledge(cell, count) ==
    /\ pc = "idle"
    /\ \E ord \in Orders :
         LET moves == moves_made \cup {cell}
             st == DirectPass(Cur, moves, cell, count, ord)
         IN  /\ moves_made' = moves
             /\ safes' = st.safes
             /\ mines' = st.mines
             /\ knowledge' = st.knowledge
             /\ direct' = st.knowledge
             /\ pc' = IF SafeMoves(st.safes, st.mines, moves) = {} THEN "sat" ELSE "idle"
    /\ round' = 0
    /\ derived' = <<>>
    /\ ncalls' = ncalls + 1
    /\ lastOp' = "add_knowledge"
    /\ repeat' = (arg = <<cell, count>>)
    /\ arg' = <<cell, count>>
    /\ ret' = None
    /\ UNCHANGED <<height, width, board>>
    /\ UNCHANGED sentVars

\* a call of add_knowledge within the budget of the game
AddKnowledge(cell, count) == ncalls < Budget /\ add_knowledge(cell, count)

\* the driving loop: a revealed cell is a board cell without a mine, with its clue
Observe ==
    \E cell \in Revealable :
        /\ ~is_mine(cell)
        /\ AddKnowledge(cell, nearby_mines(cell))

\* the saturation loop returning only once a round has made a safe move available
SaturationRound_untilsafe ==
    /\ pc = "sat"
    /\ round < Rounds
    /\ \E ord \in Orders :
         LET st == SaturationStep(Cur, ord)
         IN  /\ safes' = st.safes
             /\ mines' = st.mines
             /\ knowledge' = st.knowledge
             /\ pc' = IF SafeMoves(st.safes, st.mines, moves_made) = {} THEN "sat" ELSE "idle"
    /\ derived' = Derived(knowledge)
    /\ round' = round + 1
    /\ lastOp' = "saturation"
    /\ UNCHANGED <<height, width, board, moves_made, ncalls, arg, repeat, ret, direct>>
    /\ UNCHANGED sentVars

\* the saturation loop leaving as soon as a round has made a safe move available
SaturationRound_earlyexit ==
    /\ pc = "sat"
    /\ round < Rounds
    /\ \E ord \in Orders :
         LET st == SaturationStep(Cur, ord)
         IN  /\ safes' = st.safes
             /\ mines' = st.mines
             /\ knowledge' = st.knowledge
             /\ pc' = IF round + 1 < Rounds /\ SafeMoves(st.safes, st.mines, moves_made) = {}
                      THEN "sat" ELSE "idle"
    /\ derived' = Derived(knowledge)
    /\ round' = round + 1
    /\ lastOp' = "saturation"
    /\ UNCHANGED <<height, width, board, moves_made, ncalls, arg, repeat, ret, direct>>
    /\ UNCHANGED sentVars

\* one round of the saturation loop; the call returns after the last one
SaturationRound ==
    /\ pc = "sat"
    /\ round < Rounds
    /\ \E ord \in Orders :
         LET st == SaturationStep(Cur, ord)
         IN  /\ safes' = st.safes
             /\ mines' = st.mines
             /\ knowledge' = st.knowledge
    /\ derived' = Derived(knowledge)
    /\ round' = round + 1
    /\ pc' = IF round + 1 < Rounds THEN "sat" ELSE "idle"
    /\ lastOp' = "saturation"
    /\ UNCHANGED <<height, width, board, moves_made, ncalls, arg, repeat, ret, direct>>
    /\ UNCHANGED sentVars

\* make_safe_move that also records the cell it returns as a move made
MakeSafeMove_recording ==
    /\ pc = "idle"
    /\ \E ord \in Orders :
         /\ ret' = make_safe_move(safes, mines, moves_made, ord)
         /\ moves_made' = IF ret' = None THEN moves_made ELSE moves_made \cup {ret'}
    /\ lastOp' = "make_safe_move"
    /\ UNCHANGED <<height, width, board, safes, mines, knowledge,
                   pc, round, ncalls, arg, repeat, direct, derived>>
    /\ UNCHANGED sentVars

MakeSafeMove ==
    /\ pc = "idle"
    /\ \E ord \in Orders : ret' = make_safe_move(safes, mines, moves_made, ord)
    /\ lastOp' = "make_safe_move"
    /\ UNCHANGED <<height, width, board, moves_made, safes, mines, knowledge,
                   pc, round, ncalls, arg, repeat, direct, derived>>
    /\ UNCHANGED sentVars

MakeRandomMove ==
    /\ pc = "idle"
    /\ ret' = make_random_move(knowledge, mines, moves_made)
    /\ lastOp' = "make_random_move"
    /\ UNCHANGED <<height, width, board, moves_made, safes, mines, knowledge,
                   pc, round, ncalls, arg, repeat, direct, derived>>
    /\ UNCHANGED sentVars

Next == Observe \/ SaturationRound \/ MakeSafeMove \/ MakeRandomMove

Spec == Init /\ [][Next]_vars

(* ---------------- add_knowledge with arbitrary inputs ---------------- *)

\* the cells add_knowledge is called with: board cells and one cell off the board
AnyCells == Revealable \cup {<<height, width>>}

AnyInit == AIInit /\ board = {} /\ SentIdle

\* a caller that passes any cell and any count, whatever the board holds
AnyInput ==
    \E cell \in AnyCells, count \in AnyCounts :
        /\ ncalls < MaxCallsAny
        /\ add_knowledge(cell, count)

AnyNext == AnyInput \/ SaturationRound

\* add_knowledge is synchronous: once called it runs its rounds to the end
AnySpec == AnyInit /\ [][AnyNext]_vars /\ WF_vars(SaturationRound)

(* ---------------- the Sentence operations on their own ---------------- *)

AIIdle ==
    /\ height = 0 /\ width = 0 /\ board = {}
    /\ moves_made = {} /\ safes = {} /\ mines = {} /\ knowledge = <<>>
    /\ pc = "idle" /\ round = 0 /\ ncalls = 0 /\ lastOp = "init"
    /\ arg = None /\ repeat = FALSE /\ ret = None /\ direct = <<>> /\ derived = <<>>

SentInit ==
    /\ AIIdle
    /\ \E cells \in SUBSET SentCells, count \in SentCounts : sent = Sentence(cells, count)
    /\ sold = sent
    /\ sarg = None
    /\ sret = None

KnownMines ==
    /\ sret' = <<"known_mines", known_mines(sent)>>
    /\ sold' = sent
    /\ UNCHANGED <<sent, sarg>>
    /\ UNCHANGED aiVars

KnownSafes ==
    /\ sret' = <<"known_safes", known_safes(sent)>>
    /\ sold' = sent
    /\ UNCHANGED <<sent, sarg>>
    /\ UNCHANGED aiVars

SentMarkMine ==
    \E cell \in SentCells :
        /\ sent' = Sentence_mark_mine(sent, cell)
        /\ sold' = sent
        /\ sarg' = cell
        /\ sret' = <<"mark_mine">>
        /\ UNCHANGED aiVars

SentMarkSafe ==
    \E cell \in SentCells :
        /\ sent' = Sentence_mark_safe(sent, cell)
        /\ sold' = sent
        /\ sarg' = cell
        /\ sret' = <<"mark_safe">>
        /\ UNCHANGED aiVars

SentNext == KnownMines \/ KnownSafes \/ SentMarkMine \/ SentMarkSafe

SentSpec == SentInit /\ [][SentNext]_vars

(* ---------------- claims ---------------- *)

\* C1 (soundness): after every add_knowledge call made with a board cell that
\* holds no mine and its true clue, every cell in `mines` is a mine of the board
\* and no cell in `safes` is one; make_safe_move never returns a mine.
C1_Soundness ==
    /\ pc = "idle" => (mines \subseteq board /\ safes \cap board = {})
    /\ (lastOp = "make_safe_move" /\ ret # None) => ret \notin board

\* C2 (monotonicity): `safes` and `mines` only grow from one state to the next,
\* and no cell is in both, in every reachable state.
C2_MonotoneDisjoint ==
    /\ [](safes \cap mines = {})
    /\ [][safes \subseteq safes' /\ mines \subseteq mines']_vars

\* C3 (count range): every Sentence held in `knowledge` has 0 <= count <= |cells|,
\* also between the steps of add_knowledge.
C3_CountInRange ==
    \A x \in DOMAIN knowledge :
        0 <= knowledge[x].count /\ knowledge[x].count <= Cardinality(knowledge[x].cells)

\* a state in which the last add_knowledge call has returned
Returned == pc = "idle" /\ lastOp \in {"add_knowledge", "saturation"}

\* C4: make_safe_move returns a cell of `safes` that is in neither `mines` nor
\* `moves_made` when there is one, and None exactly when there is none.
C4_SafeMoveResult ==
    lastOp = "make_safe_move" =>
        /\ ret # None => (ret \in safes /\ ret \notin mines /\ ret \notin moves_made)
        /\ ret = None <=> ~(\E c \in safes : c \notin mines /\ c \notin moves_made)

C4_Witness ==
    /\ lastOp = "make_safe_move"
    /\ ret # None
    /\ safes \cap moves_made # {}

\* C5: make_random_move returns a cell of the height x width board that is in
\* neither `moves_made` nor `mines`, and None only when every board cell is in
\* `moves_made` or `mines`.
C5_RandomMoveResult ==
    lastOp = "make_random_move" =>
        /\ ret # None => (InBoard(ret) /\ ret \notin moves_made /\ ret \notin mines)
        /\ ret = None => BoardCells \subseteq (moves_made \cup mines)

\* C6 (exhaustion): when every board cell is in `moves_made` or `mines`, both
\* make_safe_move and make_random_move return None.
C6_Exhaustion ==
    (/\ lastOp \in {"make_safe_move", "make_random_move"}
     /\ BoardCells \subseteq (moves_made \cup mines)) => ret = None

\* C7 (zero clue): once the direct-consequence pass of add_knowledge(cell, 0) is
\* done, every neighbour of cell on the board that is not in `moves_made` is in
\* `safes`.
C7_ZeroClue ==
    (lastOp \in {"add_knowledge", "saturation"} /\ arg[2] = 0) =>
        \A c \in Around(arg[1]) \ {arg[1]} :
            (InBoard(c) /\ c \notin moves_made) => c \in safes

\* the consequences of the Sentence derived from (s1, s2) are in `safes` / `mines`
Folded(s1, s2) ==
    LET cells == s2.cells \ s1.cells
        count == s2.count - s1.count
    IN  /\ count = 0 => cells \subseteq safes
        /\ count = Cardinality(cells) => cells \subseteq mines

ProperSubset(s1, s2) ==
    s1.cells # {} /\ s1.cells \subseteq s2.cells /\ s1.cells # s2.cells

C9_Idempotence ==
    (Returned /\ repeat) =>
        Cardinality({x \in DOMAIN knowledge :
            knowledge[x] = NewSentence(arg[1], arg[2], moves_made)}) <= 1

\* C10, as claimed: for every Sentence, the empty one included, known_mines() is
\* non-empty iff count = |cells| and known_safes() is non-empty iff count = 0; a
\* non-empty result is the cell set; the Sentence is left as it was.
C10_KnownIff ==
    /\ sret[1] = "known_mines" =>
          /\ (sret[2] # {}) <=> (sent.count = Cardinality(sent.cells))
          /\ sret[2] # {} => sret[2] = sent.cells
          /\ sent = sold
    /\ sret[1] = "known_safes" =>
          /\ (sret[2] # {}) <=> (sent.count = 0)
          /\ sret[2] # {} => sret[2] = sent.cells
          /\ sent = sold

\* C10, amended: known_mines() is the cell set when count = |cells| and empty
\* otherwise, known_safes() is the cell set when count = 0 and empty otherwise
\* (so each is non-empty iff its trigger holds and the cell set is non-empty);
\* the Sentence is left as it was.
C10_KnownResult ==
    /\ sret[1] = "known_mines" =>
          /\ (sret[2] # {}) <=> (sent.count = Cardinality(sent.cells) /\ sent.cells # {})
          /\ sret[2] # {} => sret[2] = sent.cells
          /\ sent = sold
    /\ sret[1] = "known_safes" =>
          /\ (sret[2] # {}) <=> (sent.count = 0 /\ sent.cells # {})
          /\ sret[2] # {} => sret[2] = sent.cells
          /\ sent = sold

C10_Witness ==
    /\ sret[1] = "known_mines"
    /\ sret[2] # {}
    /\ sent.cells = sret[2]

\* C11 (make_safe_move is read-only): a call of make_safe_move, in whatever state
\* it is made, leaves `moves_made`, `safes`, `mines` and `knowledge` (the cells
\* and count of every Sentence) as they were.
C11_SafeMoveReadOnly ==
    [][lastOp' = "make_safe_move" =>
          UNCHANGED <<moves_made, safes, mines, knowledge>>]_vars

C11_Witness ==
    /\ lastOp = "make_safe_move"
    /\ ret # None
    /\ knowledge # <<>>
    /\ mines # {}

\* C12 (adjacency stays on the board): the Sentence add_knowledge(cell, count)
\* builds ranges over exactly the neighbours of cell that lie on the
\* height x width board and are not in `moves_made`; no cell off the board is
\* in a held Sentence, in `safes` or in `mines`, or is returned by make_safe_move.
C12_InBoardOnly ==
    /\ lastOp = "add_knowledge" =>
          NewSentence(arg[1], arg[2], moves_made).cells =
              {c \in Around(arg[1]) \ {arg[1]} : InBoard(c) /\ c \notin moves_made}
    /\ \A x \in DOMAIN knowledge : \A c \in knowledge[x].cells : InBoard(c)
    /\ \A c \in safes \cup mines : InBoard(c)
    /\ (lastOp = "make_safe_move" /\ ret # None) => InBoard(ret)

\* a safe move is available: make_safe_move would return a cell
SafeMoveAvailable == SafeMoves(safes, mines, moves_made) # {}

\* C13 (early exit), as claimed: no saturation round is started in a state where
\* make_safe_move would return a cell; a call that returns with no safe move
\* available has run the 3 rounds.
C13_EarlyExit ==
    /\ pc = "sat" => ~SafeMoveAvailable
    /\ Returned => (SafeMoveAvailable \/ round = Rounds)

\* C13, amended: the saturation pass is entered only in a state where
\* make_safe_move would return None (the test is made once, after the
\* direct-consequence pass), and a call that does not enter it returns with a
\* safe move available; once entered, the pass runs its 3 rounds, whether or
\* not a round makes a safe move available.
C13_ExitAtEntry ==
    /\ (pc = "sat" /\ round = 0) => ~SafeMoveAvailable
    /\ (Returned /\ lastOp = "add_knowledge") => (SafeMoveAvailable /\ round = 0)
    /\ (Returned /\ lastOp = "saturation") => round = Rounds

C13_Witness ==
    /\ Returned
    /\ lastOp = "saturation"
    /\ round = Rounds
    /\ SafeMoveAvailable
    /\ board # {}

\* C14 (Sentence.mark_safe): for every Sentence, whatever its count (0
\* included), and every cell, mark_safe(cell) removes the cell when it is in
\* cells and leaves count as it was, and leaves the Sentence as it was otherwise.
C14_MarkSafeRemoves ==
    sret[1] = "mark_safe" =>
        sent = IF sarg \in sold.cells
               THEN Sentence(sold.cells \ {sarg}, sold.count)
               ELSE sold

\* C15 (pruning): whenever add_knowledge returns, `knowledge` holds no Sentence
\* with an empty cell set and no two equal Sentences.
C15_PrunedAtReturn ==
    Returned =>
        /\ \A x \in DOMAIN knowledge : knowledge[x].cells # {}
        /\ \A x, y \in DOMAIN knowledge : knowledge[x] = knowledge[y] => x = y

\* the board cells make_random_move is to prefer
Preferred ==
    {c \in BoardCells :
        c \notin moves_made /\ c \notin mines /\ c \notin Implicated(knowledge)}

\* C16 (random-move preference): when some board cell is in neither
\* `moves_made` nor `mines` and in no held Sentence with count > 0,
\* make_random_move returns such a cell; when there is none, what it returns is
\* a board cell in neither `moves_made` nor `mines` that a Sentence with
\* count > 0 contains.
C16_RandomMovePreference ==
    lastOp = "make_random_move" =>
        IF Preferred # {}
        THEN ret \in Preferred
        ELSE ret # None =>
                /\ InBoard(ret)
                /\ ret \notin moves_made
                /\ ret \notin mines
                /\ ret \in Implicated(knowledge)

\* C17 (held Sentences are true): with every add_knowledge call made for a
\* board cell that holds no mine and with its true clue, in every reachable
\* state the number of mines of the board among the cells of each held Sentence
\* is the count of the Sentence (a cell off the board holds no mine).
C17_SentencesTrue ==
    \A x \in DOMAIN knowledge :
        Cardinality({c \in knowledge[x].cells : InBoard(c) /\ is_mine(c)}) = knowledge[x].count

\* C18 (termination): an add_knowledge call, made in any reachable state with
\* any cell and any count, returns, and has run at most 3 saturation rounds
\* when it does.
C18_Termination ==
    /\ [](round <= Rounds)
    /\ (pc = "sat") ~> (pc = "idle" /\ lastOp = "saturation" /\ round <= Rounds)

C18_Witness ==
    /\ Returned
    /\ lastOp = "saturation"
    /\ round = Rounds
    /\ ~InBoard(arg[1])
    /\ arg[2] = -1
    /\ Len(knowledge) > 1

====
